---- MODULE Spec2Model ----
(***************************************************************************)
(* A model of the blog application's views and forms                       *)
(* (webapp/views/article_views.py, webapp/forms.py).                       *)
(*                                                                         *)
(* The persistent store is the state: the Article table, the Tag table,    *)
(* the article<->tag association table and the Comment table. Every view   *)
(* handler is one action that reads a request drawn from a small set and   *)
(* leaves the response in `response`. Text is a sequence of one-character  *)
(* strings so that splitting, stripping and case folding are computed.     *)
(***************************************************************************)
EXTENDS Integers, Sequences, FiniteSets, TLC

VARIABLES
    articles,      \* Article table: pk -> [title, text, author]
    tagTable,      \* Tag table: set of [id, name]
    article_tags,  \* association table: set of <<article pk, tag id>>
    comments,      \* Comment table: set of [id, article, author, text]
    requests,      \* requests in flight (interleaved handling): slot -> record
    paginator,     \* the Paginator a view built: [count, per_page, orphans]
    response       \* the last response handed back

vars == <<articles, tagTable, article_tags, comments, requests, paginator, response>>

store == <<articles, tagTable, article_tags, comments>>

(***************************************************************************)
(* Text                                                                    *)
(***************************************************************************)

\* str.lower() on one character of the alphabet in use
Lower(c) ==
    CASE c = "A" -> "a"
      [] c = "B" -> "b"
      [] c = "F" -> "f"
      [] c = "O" -> "o"
      [] OTHER -> c

LowerStr(s) == [i \in 1..Len(s) |-> Lower(s[i])]

\* the __icontains lookup: case-insensitive substring
IContains(hay, needle) ==
    LET h == LowerStr(hay)
        n == LowerStr(needle)
    IN  \E i \in 0..(Len(h) - Len(n)) : SubSeq(h, i + 1, i + Len(n)) = n

\* the __iexact lookup: case-insensitive equality
IExact(a, b) == LowerStr(a) = LowerStr(b)

RECURSIVE LStrip(_, _)
LStrip(s, chars) ==
    IF s # <<>> /\ Head(s) \in chars THEN LStrip(Tail(s), chars) ELSE s

RECURSIVE RStrip(_, _)
RStrip(s, chars) ==
    IF s # <<>> /\ s[Len(s)] \in chars
    THEN RStrip(SubSeq(s, 1, Len(s) - 1), chars)
    ELSE s

\* str.strip(chars)
StripChars(s, chars) == RStrip(LStrip(s, chars), chars)

\* str.strip(): whitespace off both ends
Strip(s) == StripChars(s, {" "})

\* str.split(','): n commas give n + 1 pieces, empty ones included
RECURSIVE Split(_)
Split(s) ==
    IF \A i \in 1..Len(s) : s[i] # ","
    THEN <<s>>
    ELSE LET i == CHOOSE j \in 1..Len(s) :
                      s[j] = "," /\ \A k \in 1..(j - 1) : s[k] # ","
         IN  <<SubSeq(s, 1, i - 1)>> \o Split(SubSeq(s, i + 1, Len(s)))

Range(f) == {f[i] : i \in DOMAIN f}

Max(S) == CHOOSE x \in S : \A y \in S : y <= x

(***************************************************************************)
(* Q objects and querysets                                                 *)
(*                                                                         *)
(* A Q is a tree: [connector, children], a child being a lookup            *)
(* [lookup, value] or another Q. One filter() call joins each multi-valued *)
(* relation (tags, comments) once, so every lookup of that call reads the  *)
(* same joined row; an article with no related row joins to a NULL row     *)
(* (LEFT OUTER JOIN), on which no lookup holds.                            *)
(***************************************************************************)

NullTag == [id |-> 0, name |-> <<>>]

NullComment == [id |-> 0, article |-> 0, author |-> <<>>, text |-> <<>>]

\* Q()
EmptyQ == [connector |-> "AND", children |-> <<>>]

\* Q(lookup=value)
Q(lookup, value) ==
    [connector |-> "AND", children |-> <<[lookup |-> lookup, value |-> value]>>]

IsNode(x) == "connector" \in DOMAIN x

\* tree.Node.add: a child of the same connector, or of one child, is squashed
NodeAdd(node, data, conn) ==
    IF data.connector = conn \/ Len(data.children) = 1
    THEN [node EXCEPT !.children = @ \o data.children]
    ELSE [node EXCEPT !.children = Append(@, data)]

\* Q._combine
Combine(q1, q2, conn) ==
    IF q1.children = <<>> THEN q2
    ELSE IF q2.children = <<>> THEN q1
    ELSE NodeAdd(NodeAdd([connector |-> conn, children |-> <<>>], q1, conn), q2, conn)

\* the | and & of Q objects
QOr(q1, q2) == Combine(q1, q2, "OR")

QAnd(q1, q2) == Combine(q1, q2, "AND")

RECURSIVE Lookups(_)
Lookups(q) ==
    UNION {IF IsNode(q.children[i]) THEN Lookups(q.children[i])
           ELSE {q.children[i].lookup} : i \in DOMAIN q.children}

\* one lookup on one joined row (article pk a, tag row t, comment row c)
LookupHolds(l, a, t, c) ==
    CASE l.lookup = "title__icontains" -> IContains(articles[a].title, l.value)
      [] l.lookup = "text__icontains" -> IContains(articles[a].text, l.value)
      [] l.lookup = "author__icontains" -> IContains(articles[a].author, l.value)
      [] l.lookup = "author__iexact" -> IExact(articles[a].author, l.value)
      [] l.lookup = "tags__name__iexact" -> t.id # 0 /\ IExact(t.name, l.value)
      [] l.lookup = "comments__text__icontains" ->
            c.id # 0 /\ IContains(c.text, l.value)
      [] l.lookup = "comments__author__iexact" ->
            c.id # 0 /\ IExact(c.author, l.value)

RECURSIVE QHolds(_, _, _, _)
QHolds(q, a, t, c) ==
    LET child(i) == IF IsNode(q.children[i])
                    THEN QHolds(q.children[i], a, t, c)
                    ELSE LookupHolds(q.children[i], a, t, c)
    IN  IF q.connector = "OR"
        THEN \E i \in DOMAIN q.children : child(i)
        ELSE \A i \in DOMAIN q.children : child(i)

TagsOf(a) == {t \in tagTable : <<a, t.id>> \in article_tags}

CommentsOf(a) == {c \in comments : c.article = a}

\* the rows one filter(q) call leaves for article a
FilterRows(q, a) ==
    LET tside == IF "tags__name__iexact" \in Lookups(q) /\ TagsOf(a) # {}
                 THEN TagsOf(a) ELSE {NullTag}
        cside == IF Lookups(q) \cap {"comments__text__icontains",
                                     "comments__author__iexact"} # {}
                    /\ CommentsOf(a) # {}
                 THEN CommentsOf(a) ELSE {NullComment}
    IN  Cardinality({r \in tside \X cside : QHolds(q, a, r[1], r[2])})

\* chained filter() calls join afresh: the rows multiply
RECURSIVE ChainRows(_, _)
ChainRows(qs, a) ==
    IF qs = <<>> THEN 1 ELSE FilterRows(Head(qs), a) * ChainRows(Tail(qs), a)

\* Article.objects.filter(q1).filter(q2)...: pk -> number of result rows
QuerySet(qs) == [a \in DOMAIN articles |-> ChainRows(qs, a)]

\* .distinct()
Distinct(rows) == [a \in DOMAIN rows |-> IF rows[a] > 0 THEN 1 ELSE 0]

\* the rows as a list, newest article first (ordering = ['-created_at'])
RECURSIVE NewestFirst(_, _)
NewestFirst(rows, pk) ==
    IF pk = 0 THEN <<>>
    ELSE (IF pk \in DOMAIN rows THEN [i \in 1..rows[pk] |-> pk] ELSE <<>>)
         \o NewestFirst(rows, pk - 1)

(***************************************************************************)
(* django.core.paginator.Paginator(object_list, per_page, orphans)         *)
(***************************************************************************)

\* Paginator.num_pages (allow_empty_first_page is left at its default, True)
NumPages(count, per_page, orphans) ==
    LET hits == IF count - orphans > 1 THEN count - orphans ELSE 1
    IN  (hits + per_page - 1) \div per_page

\* a page() that never merges the orphans into the last page
PageObjectsNoOrphans(list, per_page, orphans, number) ==
    LET bottom == (number - 1) * per_page
        top == IF bottom + per_page >= Len(list)
               THEN Len(list) ELSE bottom + per_page
    IN  SubSeq(list, bottom + 1, top)

\* Paginator.page(number).object_list, number already validated
PageObjects(list, per_page, orphans, number) ==
    LET bottom == (number - 1) * per_page
        top == IF bottom + per_page + orphans >= Len(list)
               THEN Len(list) ELSE bottom + per_page
    IN  SubSeq(list, bottom + 1, top)

(***************************************************************************)
(* webapp/forms.py                                                         *)
(***************************************************************************)

\* SimpleSearchForm.search: max_length
SearchMaxLength == 100

\* SimpleSearchForm(request.GET): CharField strips the value, then checks its
\* length; the form is valid iff it fits, and cleaned_data holds the stripped
\* value
SimpleSearchForm(search) ==
    [is_valid |-> Len(Strip(search)) <= SearchMaxLength,
     search |-> Strip(search)]

\* a clean() that checks the author rule before the text rule
CleanAuthorFirst(data) ==
    IF data.author # <<>> /\ ~(data.article_author \/ data.comment_author)
    THEN [ok |-> FALSE, code |-> "author_search_criteria_empty", data |-> data]
    ELSE IF data.text # <<>>
       /\ ~(data.in_title \/ data.in_text \/ data.in_tags \/ data.in_comment_text)
    THEN [ok |-> FALSE, code |-> "text_search_criteria_empty", data |-> data]
    ELSE IF data.author = <<>> /\ data.text = <<>>
    THEN [ok |-> FALSE, code |-> "author_text_search_criteria_empty", data |-> data]
    ELSE [ok |-> TRUE, code |-> "", data |-> data]

\* a clean() without the author rule
CleanNoAuthorRule(data) ==
    IF data.text # <<>>
       /\ ~(data.in_title \/ data.in_text \/ data.in_tags \/ data.in_comment_text)
    THEN [ok |-> FALSE, code |-> "text_search_criteria_empty", data |-> data]
    ELSE IF data.author = <<>> /\ data.text = <<>>
    THEN [ok |-> FALSE, code |-> "author_text_search_criteria_empty", data |-> data]
    ELSE [ok |-> TRUE, code |-> "", data |-> data]

\* FullSearchForm.clean over cleaned_data: the first failing rule raises
Clean(data) ==
    IF data.text # <<>>
       /\ ~(data.in_title \/ data.in_text \/ data.in_tags \/ data.in_comment_text)
    THEN [ok |-> FALSE, code |-> "text_search_criteria_empty", data |-> data]
    ELSE IF data.author # <<>> /\ ~(data.article_author \/ data.comment_author)
    THEN [ok |-> FALSE, code |-> "author_search_criteria_empty", data |-> data]
    ELSE IF data.author = <<>> /\ data.text = <<>>
    THEN [ok |-> FALSE, code |-> "author_text_search_criteria_empty", data |-> data]
    ELSE [ok |-> TRUE, code |-> "", data |-> data]

(***************************************************************************)
(* The Tag table                                                           *)
(***************************************************************************)

\* a store without the constraint
NoConstraint(name, table) == FALSE

\* the store's uniqueness constraint on Tag.name
UniqueViolation(name, table) == \E t \in table : t.name = name

\* Tag.objects.get(name=name): one row, DoesNotExist or MultipleObjectsReturned
TagGet(name, table) ==
    LET found == {t \in table : t.name = name}
    IN  IF found = {} THEN [status |-> "absent", tag |-> NullTag]
        ELSE IF Cardinality(found) = 1
        THEN [status |-> "found", tag |-> CHOOSE t \in found : TRUE]
        ELSE [status |-> "multiple", tag |-> NullTag]

\* Tag.objects.create(name=name): the INSERT, which the constraint may reject
TagCreate(name, table) ==
    IF UniqueViolation(name, table)
    THEN [status |-> "integrity_error", tag |-> NullTag, table |-> table]
    ELSE LET t == [id |-> Max({0} \cup {x.id : x \in table}) + 1, name |-> name]
         IN  [status |-> "created", tag |-> t, table |-> table \cup {t}]

\* a get_or_create that lets the IntegrityError of its INSERT through
ReRaise(name, table) == [status |-> "server_error", tag |-> NullTag]

\* what get_or_create does once its INSERT was rejected: read the row again,
\* and re-raise the IntegrityError if it is still not there
AfterIntegrityError(name, table) ==
    LET again == TagGet(name, table)
    IN  IF again.status = "found" THEN again
        ELSE [status |-> "server_error", tag |-> NullTag]

\* Tag.objects.get_or_create(name=name), nothing running in between
GetOrCreate(name, table) ==
    LET got == TagGet(name, table)
    IN  IF got.status = "found"
        THEN [ok |-> TRUE, tag |-> got.tag, table |-> table]
        ELSE IF got.status = "multiple"
        THEN [ok |-> FALSE, tag |-> NullTag, table |-> table]
        ELSE LET made == TagCreate(name, table)
                 again == AfterIntegrityError(name, table)
             IN  IF made.status = "created"
                 THEN [ok |-> TRUE, tag |-> made.tag, table |-> made.table]
                 ELSE [ok |-> again.status = "found", tag |-> again.tag,
                       table |-> table]

\* the loop of form_valid: for tag in tags: get_or_create(name=tag.strip()),
\* then self.object.tags.add(tag)
RECURSIVE AddTags(_, _, _, _)
AddTags(pieces, pk, table, assoc) ==
    IF pieces = <<>> THEN [ok |-> TRUE, table |-> table, assoc |-> assoc]
    ELSE LET g == GetOrCreate(Strip(Head(pieces)), table)
         IN  IF ~g.ok THEN [ok |-> FALSE, table |-> g.table, assoc |-> assoc]
             ELSE AddTags(Tail(pieces), pk, g.table, assoc \cup {<<pk, g.tag.id>>})

\* the names of the tags an article is associated with
TagNames(a) == {t.name : t \in TagsOf(a)}

\* a clear() that removes nothing
TagsClearNothing(pk, assoc) == assoc

\* article.tags.clear()
TagsClear(pk, assoc) == {x \in assoc : x[1] # pk}

\* str(tag), which the ORM takes when a Tag is given to a text lookup
TagStr(t) == t.name

(***************************************************************************)
(* webapp/views/article_views.py, one request handled at a time            *)
(***************************************************************************)

\* IndexView.paginate_by, IndexView.paginate_orphans
IndexPaginateBy == 5

IndexPaginateOrphans == 1

NoTag == 0

NoResponse == [op |-> "none", status |-> "none"]

NextPk == Max({0} \cup DOMAIN articles) + 1

\* ArticleCreateView.form_valid
CreateFormValid(form, tags) ==
    LET pk == NextPk
        r == AddTags(Split(tags), pk, tagTable, article_tags)
    IN  /\ articles' = (pk :> form) @@ articles
        /\ tagTable' = r.table
        /\ article_tags' = r.assoc
        /\ response' = [op |-> "create", pk |-> pk, tags |-> tags,
                        status |-> IF r.ok THEN "redirect" ELSE "server_error"]

\* POST to ArticleCreateView with a valid ArticleForm
ArticleCreate(form, tags, maxArticles) ==
    /\ Cardinality(DOMAIN articles) < maxArticles
    /\ CreateFormValid(form, tags)
    /\ UNCHANGED <<comments, requests, paginator>>

\* ArticleUpdateView.form_valid
UpdateFormValid(pk, form, tags) ==
    LET r == AddTags(Split(tags), pk, tagTable, TagsClear(pk, article_tags))
    IN  /\ articles' = [articles EXCEPT ![pk] = form]
        /\ tagTable' = r.table
        /\ article_tags' = r.assoc
        /\ response' = [op |-> "update", pk |-> pk, tags |-> tags,
                        prior |-> TagNames(pk),
                        status |-> IF r.ok THEN "redirect" ELSE "server_error"]

\* POST to ArticleUpdateView: get_object (in post) and get_object_or_404 (in
\* form_valid) answer 404 for a pk that is not there
ArticleUpdate(pk, form, tags) ==
    /\ IF pk \in DOMAIN articles
       THEN UpdateFormValid(pk, form, tags)
       ELSE /\ response' = [op |-> "update", pk |-> pk, tags |-> tags,
                            prior |-> {}, status |-> "not_found"]
            /\ UNCHANGED <<articles, tagTable, article_tags>>
    /\ UNCHANGED <<comments, requests, paginator>>

\* the tag names of an article, by tag id, each followed by ', '
RECURSIVE JoinNames(_, _)
JoinNames(pk, fromId) ==
    LET later == {t \in TagsOf(pk) : t.id >= fromId}
    IN  IF later = {} THEN <<>>
        ELSE LET t == CHOOSE x \in later : \A y \in later : x.id <= y.id
             IN  t.name \o <<",", " ">> \o JoinNames(pk, t.id + 1)

\* ArticleUpdateView.get
ArticleUpdateGet(pk) ==
    /\ response' =
          IF pk \in DOMAIN articles
          THEN [op |-> "update_get", pk |-> pk, status |-> "ok",
                initial |-> StripChars(JoinNames(pk, 1), {",", " "})]
          ELSE [op |-> "update_get", pk |-> pk, status |-> "not_found",
                initial |-> <<>>]
    /\ UNCHANGED <<store, requests, paginator>>

\* a get_queryset whose tag filter is an `elif` of the search filter
IndexFiltersEither(search_query, tag_query) ==
    IF search_query # <<>>
    THEN <<QOr(QOr(Q("title__icontains", search_query),
                   Q("author__icontains", search_query)),
               Q("tags__name__iexact", search_query))>>
    ELSE IF tag_query # NoTag
    THEN <<Q("tags__name__iexact",
             TagStr(CHOOSE t \in tagTable : t.id = tag_query))>>
    ELSE <<>>

\* IndexView.get_queryset: the filter() calls it chains
IndexFilters(search_query, tag_query) ==
    (IF search_query # <<>>
     THEN <<QOr(QOr(Q("title__icontains", search_query),
                    Q("author__icontains", search_query)),
                Q("tags__name__iexact", search_query))>>
     ELSE <<>>)
    \o
    (IF tag_query # NoTag
     THEN <<Q("tags__name__iexact",
              TagStr(CHOOSE t \in tagTable : t.id = tag_query))>>
     ELSE <<>>)

\* IndexView.get with ?search=..&tag=.. and no page parameter (page 1)
IndexGet(search, tag) ==
    LET form == SimpleSearchForm(search)
        search_query == IF form.is_valid THEN form.search ELSE <<>>
        tag_query == IF form.is_valid THEN tag ELSE NoTag
    IN  /\ IF tag_query # NoTag /\ \A t \in tagTable : t.id # tag_query
           THEN \* Tag.objects.get(pk=...) raises Tag.DoesNotExist
                /\ response' = [op |-> "index", search_query |-> search_query,
                                tag_query |-> tag_query,
                                status |-> "server_error", queryset |-> <<>>,
                                object_list |-> <<>>]
                /\ UNCHANGED paginator
           ELSE LET list == NewestFirst(
                                QuerySet(IndexFilters(search_query, tag_query)),
                                Max({0} \cup DOMAIN articles))
                IN  /\ paginator' = [count |-> Len(list),
                                     per_page |-> IndexPaginateBy,
                                     orphans |-> IndexPaginateOrphans]
                    /\ response' = [op |-> "index",
                                    search_query |-> search_query,
                                    tag_query |-> tag_query, status |-> "ok",
                                    queryset |-> list,
                                    object_list |-> PageObjects(list,
                                        IndexPaginateBy, IndexPaginateOrphans, 1)]
        /\ UNCHANGED <<store, requests>>

(***************************************************************************)
(* Requests tried, and the specification of requests handled one at a time *)
(***************************************************************************)

MaxArticles == 1

MaxRequests == 2

\* the raw `tags` values posted
TagStrings ==
    {<<>>, <<" ">>, <<"a">>, <<" ", "a", " ">>, <<",">>, <<"a", ",">>,
     <<"a", ",", "a">>, <<"b", ",", " ", "a">>, <<"z">>,
     <<"a", ",", " ", "b", " ", ",", ",", " ", "b">>}

PlainForm == [title |-> <<"t">>, text |-> <<"x">>, author |-> <<"u">>]

TooLong == [i \in 1..(SearchMaxLength + 1) |-> "a"]

Idle == [pc |-> "idle", op |-> "none", pk |-> 0, pieces |-> <<>>, tag |-> 0,
         missed |-> {}, rejected |-> {}, status |-> "none"]

IdleRequests == [r \in 1..MaxRequests |-> Idle]

NoPaginator == [count |-> 0, per_page |-> 1, orphans |-> 0]

Init ==
    /\ articles = <<>>
    /\ tagTable = {}
    /\ article_tags = {}
    /\ comments = {}
    /\ requests = IdleRequests
    /\ paginator = NoPaginator
    /\ response = NoResponse

Next ==
    \/ \E tags \in TagStrings : ArticleCreate(PlainForm, tags, MaxArticles)
    \/ \E pk \in 1..(MaxArticles + 1), tags \in TagStrings :
          ArticleUpdate(pk, PlainForm, tags)
    \/ \E pk \in 1..(MaxArticles + 1) : ArticleUpdateGet(pk)

Spec == Init /\ [][Next]_vars

(***************************************************************************)
(* The same handlers with the list view, over articles that differ in      *)
(* title and author and a few tag strings                                  *)
(***************************************************************************)

MaxIndexArticles == 2

IndexForms ==
    {[title |-> <<"x", "A", "b">>, text |-> <<"x">>, author |-> <<"u">>],
     [title |-> <<"t">>, text |-> <<"x">>, author |-> <<"a", "B", "y">>]}

IndexTagStrings == {<<"a", "b">>, <<"A", "B", ",", "z">>}

IndexSearches == {<<>>, <<" ", "a", "b">>, TooLong}

\* the `tag` parameter: absent, or a Tag pk (the last one never exists)
IndexTagParams == {NoTag, 1, 2, 3, 4}

NextIndex ==
    \/ \E form \in IndexForms, tags \in IndexTagStrings :
          ArticleCreate(form, tags, MaxIndexArticles)
    \/ \E pk \in 1..(MaxIndexArticles + 1) :
          ArticleUpdate(pk, PlainForm, <<"z">>)
    \/ \E pk \in 1..(MaxIndexArticles + 1) : ArticleUpdateGet(pk)
    \/ \E search \in IndexSearches, tag \in IndexTagParams :
          IndexGet(search, tag)

SpecIndex == Init /\ [][NextIndex]_vars

(***************************************************************************)
(* Properties of create, update and the list view                          *)
(***************************************************************************)

\* the distinct non-empty trimmed comma-separated pieces of a tag string
NonEmptyPieces(tags) == {Strip(p) : p \in Range(Split(tags))} \ {<<>>}

AllPiecesNonEmpty(tags) == \A p \in Range(Split(tags)) : Strip(p) # <<>>

\* C3: after a create the article's tags are exactly the distinct non-empty
\* trimmed pieces of the posted string, and no Tag record has an empty name
C3_CreateSkipsEmptyPieces ==
    /\ \A t \in tagTable : t.name # <<>>
    /\ response.op = "create"
          => TagNames(response.pk) = NonEmptyPieces(response.tags)

\* C4: after an update whose pieces are all non-empty, the article's tag set
\* is exactly the set of the trimmed pieces: nothing of the prior set remains
\* unless the new string names it
C4_UpdateReplacesTags ==
    (response.op = "update" /\ response.status = "redirect"
        /\ AllPiecesNonEmpty(response.tags))
    => /\ TagNames(response.pk) = NonEmptyPieces(response.tags)
       /\ \A n \in response.prior :
             n \notin NonEmptyPieces(response.tags) => n \notin TagNames(response.pk)

\* an update that dropped a prior tag (prior a and b, new string "z")
C4_Witness ==
    /\ response.op = "update" /\ response.status = "redirect"
    /\ response.tags = <<"z">>
    /\ response.prior = {<<"a">>, <<"b">>}
    /\ TagNames(response.pk) = {<<"z">>}

\* what each filter of the list view asks of an article, said directly
SearchMatches(a, s) ==
    \/ IContains(articles[a].title, s)
    \/ IContains(articles[a].author, s)
    \/ \E t \in TagsOf(a) : IExact(t.name, s)

TagMatches(a, id) ==
    \E t \in TagsOf(a), g \in tagTable : g.id = id /\ IExact(t.name, g.name)

Listed == Range(response.queryset)

SearchFiltered ==
    {a \in DOMAIN articles :
        response.search_query # <<>> => SearchMatches(a, response.search_query)}

TagFiltered ==
    {a \in DOMAIN articles :
        response.tag_query # NoTag => TagMatches(a, response.tag_query)}

RefersToMissing(r) ==
    \/ r.op \in {"update", "update_get"} /\ r.pk \notin DOMAIN articles
    \/ r.op = "index" /\ r.tag_query # NoTag
          /\ \A t \in tagTable : t.id # r.tag_query

\* C9: a request that refers to a record which does not exist is answered
\* not-found and leaves the store as it was
C9_MissingRecordIsNotFound ==
    [][RefersToMissing(response)'
          => (response.status = "not_found")' /\ UNCHANGED store]_vars

(***************************************************************************)
(* Create and update requests handled concurrently: every statement a      *)
(* handler sends to the store is one step, and the steps of the requests   *)
(* in flight interleave (autocommit, no lock taken by the views). A         *)
(* behaviour holds MaxRequests requests, one per slot.                     *)
(***************************************************************************)

RaceTagStrings == {<<"a">>, <<"b", ",", " ", "a">>}

\* the name get_or_create is called with for the piece at hand
PieceName(r) == Strip(Head(requests[r].pieces))

\* ArticleCreateView.form_valid up to the loop: form.save()
CreateBegin(r, tags) ==
    /\ requests[r].pc = "idle"
    /\ articles' = (NextPk :> PlainForm) @@ articles
    /\ requests' = [requests EXCEPT ![r] =
          [pc |-> "get", op |-> "create", pk |-> NextPk, pieces |-> Split(tags),
           tag |-> 0, missed |-> {}, rejected |-> {}, status |-> "running"]]
    /\ UNCHANGED <<tagTable, article_tags, comments, paginator, response>>

\* ArticleUpdateView.form_valid up to the loop: get_object_or_404,
\* article.tags.clear(), form.save()
UpdateBegin(r, pk, tags) ==
    /\ requests[r].pc = "idle"
    /\ IF pk \in DOMAIN articles
       THEN /\ article_tags' = TagsClear(pk, article_tags)
            /\ articles' = [articles EXCEPT ![pk] = PlainForm]
            /\ requests' = [requests EXCEPT ![r] =
                  [pc |-> "get", op |-> "update", pk |-> pk,
                   pieces |-> Split(tags), tag |-> 0, missed |-> {},
                   rejected |-> {}, status |-> "running"]]
       ELSE /\ requests' = [requests EXCEPT ![r] =
                  [Idle EXCEPT !.pc = "done", !.op = "update", !.pk = pk,
                               !.status = "not_found"]]
            /\ UNCHANGED <<articles, article_tags>>
    /\ UNCHANGED <<tagTable, comments, paginator, response>>

\* get_or_create: the SELECT
GetStep(r) ==
    /\ requests[r].pc = "get"
    /\ LET got == TagGet(PieceName(r), tagTable)
       IN  requests' = [requests EXCEPT ![r] =
              IF got.status = "found"
              THEN [@ EXCEPT !.pc = "add", !.tag = got.tag.id]
              ELSE IF got.status = "absent"
              THEN [@ EXCEPT !.pc = "create", !.missed = @ \cup {PieceName(r)}]
              ELSE [@ EXCEPT !.pc = "done", !.status = "server_error"]]
    /\ UNCHANGED <<store, paginator, response>>

\* get_or_create: the INSERT
CreateStep(r) ==
    /\ requests[r].pc = "create"
    /\ LET made == TagCreate(PieceName(r), tagTable)
       IN  /\ tagTable' = made.table
           /\ requests' = [requests EXCEPT ![r] =
                 IF made.status = "created"
                 THEN [@ EXCEPT !.pc = "add", !.tag = made.tag.id]
                 ELSE [@ EXCEPT !.pc = "recover",
                                !.rejected = @ \cup {PieceName(r)}]]
    /\ UNCHANGED <<articles, article_tags, comments, paginator, response>>

\* get_or_create: the except IntegrityError branch
RecoverStep(r) ==
    /\ requests[r].pc = "recover"
    /\ LET again == AfterIntegrityError(PieceName(r), tagTable)
       IN  requests' = [requests EXCEPT ![r] =
              IF again.status = "found"
              THEN [@ EXCEPT !.pc = "add", !.tag = again.tag.id]
              ELSE [@ EXCEPT !.pc = "done", !.status = "server_error"]]
    /\ UNCHANGED <<store, paginator, response>>

\* self.object.tags.add(tag), then the next piece or the redirect
AddStep(r) ==
    /\ requests[r].pc = "add"
    /\ article_tags' = article_tags \cup {<<requests[r].pk, requests[r].tag>>}
    /\ requests' = [requests EXCEPT ![r] =
          IF Len(@.pieces) > 1
          THEN [@ EXCEPT !.pc = "get", !.pieces = Tail(@)]
          ELSE [@ EXCEPT !.pc = "done", !.pieces = <<>>, !.status = "redirect"]]
    /\ UNCHANGED <<articles, tagTable, comments, paginator, response>>

NextRace ==
    \E r \in 1..MaxRequests :
        \/ \E tags \in RaceTagStrings : CreateBegin(r, tags)
        \/ \E pk \in 1..MaxRequests, tags \in RaceTagStrings :
              UpdateBegin(r, pk, tags)
        \/ GetStep(r)
        \/ CreateStep(r)
        \/ RecoverStep(r)
        \/ AddStep(r)

SpecRace == Init /\ [][NextRace]_vars

\* C6: no two Tag records have the same name, and no article is associated
\* with two Tag records of the same name
C6_TagNamesUnique ==
    /\ \A t1, t2 \in tagTable : t1.name = t2.name => t1 = t2
    /\ \A a \in DOMAIN articles :
          \A t1, t2 \in TagsOf(a) : t1.name = t2.name => t1 = t2

\* two requests found the same name absent, one INSERT went in and the other
\* was rejected
C6_Witness ==
    \E r1, r2 \in 1..MaxRequests :
        /\ r1 # r2
        /\ requests[r1].missed \cap requests[r2].rejected # {}
        /\ \A n \in requests[r2].rejected : \E t \in tagTable : t.name = n

\* C7 as claimed: a request whose INSERT the constraint rejected ends in a
\* server error
C7_RejectedRequestFails ==
    \A r \in 1..MaxRequests :
        (requests[r].pc = "done" /\ requests[r].rejected # {})
        => requests[r].status = "server_error"

\* C7 amended: get_or_create recovers from the rejected INSERT: the request
\* reads the tag the other request inserted, goes on to associate it, and no
\* request ends in a server error
C7_RejectedRequestRecovers ==
    \A r \in 1..MaxRequests :
        /\ requests[r].status # "server_error"
        /\ (requests[r].pc = "add" /\ PieceName(r) \in requests[r].rejected)
              => \E t \in tagTable :
                    t.id = requests[r].tag /\ t.name = PieceName(r)

\* both requests found the tag absent, the second INSERT was rejected, and
\* that request completed with the tag associated
C7_Witness ==
    \E r1, r2 \in 1..MaxRequests, n \in {<<"a">>, <<"b">>} :
        /\ r1 # r2
        /\ n \in requests[r1].missed \cap requests[r2].missed
        /\ n \in requests[r2].rejected
        /\ requests[r2].pc = "done" /\ requests[r2].status = "redirect"
        /\ n \in TagNames(requests[r2].pk)

(***************************************************************************)
(* ArticleSearchView: FormView.post cleans the form, then form_valid       *)
(* (the query) or form_invalid (the error)                                 *)
(***************************************************************************)

\* ArticleSearchView.get_text_query
GetTextQuery(data, text) ==
    LET q1 == IF data.in_title THEN QOr(EmptyQ, Q("title__icontains", text))
              ELSE EmptyQ
        q2 == IF data.in_text THEN QOr(q1, Q("text__icontains", text)) ELSE q1
        q3 == IF data.in_tags THEN QOr(q2, Q("tags__name__iexact", text)) ELSE q2
    IN  IF data.in_comment_text
        THEN QOr(q3, Q("comments__text__icontains", text)) ELSE q3

\* ArticleSearchView.get_author_query
GetAuthorQuery(data, author_name) ==
    LET q1 == IF data.article_author
              THEN QOr(EmptyQ, Q("author__iexact", author_name)) ELSE EmptyQ
    IN  IF data.comment_author
        THEN QOr(q1, Q("comments__author__iexact", author_name)) ELSE q1

\* the query form_valid builds
SearchQuery(data) ==
    LET q1 == IF data.text # <<>>
              THEN QAnd(EmptyQ, GetTextQuery(data, data.text)) ELSE EmptyQ
    IN  IF data.author # <<>>
        THEN QAnd(q1, GetAuthorQuery(data, data.author)) ELSE q1

\* a form_valid that leaves .distinct() out
SearchFormValidAllRows(data) == QuerySet(<<SearchQuery(data)>>)

\* ArticleSearchView.form_valid: context['articles']
SearchFormValid(data) == Distinct(QuerySet(<<SearchQuery(data)>>))

\* POST to ArticleSearchView. The handler writes nothing, so a behaviour
\* holds one search: a second one would start from the same store
SearchPost(data) ==
    LET form == Clean(data)
    IN  /\ response = NoResponse
        /\ response' =
              [op |-> "search", data |-> data, valid |-> form.ok,
               code |-> form.code, cleaned |-> form.data,
               articles |-> IF form.ok THEN SearchFormValid(form.data)
                            ELSE <<>>]
        /\ UNCHANGED <<store, requests, paginator>>

MaxSearchArticles == 2

\* the articles a store is drawn from, by pk: title, text, author, tag names,
\* comments (author, text)
SearchPool ==
    <<[title |-> <<"x", "f", "O", "x">>, text |-> <<"x">>, author |-> <<"u">>,
       tags |-> {}, comments |-> <<>>],
      [title |-> <<"t">>, text |-> <<"F", "o">>, author |-> <<"u">>,
       tags |-> {}, comments |-> <<>>],
      [title |-> <<"t">>, text |-> <<"x">>, author |-> <<"u">>,
       tags |-> {<<"F", "O">>}, comments |-> <<>>],
      [title |-> <<"t">>, text |-> <<"x">>, author |-> <<"u">>,
       tags |-> {<<"f", "o", "o">>}, comments |-> <<>>],
      [title |-> <<"t">>, text |-> <<"x">>, author |-> <<"u">>,
       tags |-> {}, comments |-> << <<<<"u">>, <<"a", "f", "o">>>> >>],
      [title |-> <<"t">>, text |-> <<"x">>, author |-> <<"b", "O">>,
       tags |-> {}, comments |-> <<>>],
      [title |-> <<"t">>, text |-> <<"x">>, author |-> <<"b", "o", "b">>,
       tags |-> {}, comments |-> << <<<<"B", "O">>, <<"x">>>> >>],
      [title |-> <<"t">>, text |-> <<"x">>, author |-> <<"u">>,
       tags |-> {}, comments |-> << <<<<"B", "O">>, <<"x">>>>,
                                    <<<<"u">>, <<"f", "o">>>> >>],
      [title |-> <<"t">>, text |-> <<"x">>, author |-> <<"u">>,
       tags |-> {}, comments |-> << <<<<"b", "o">>, <<"f", "o">>>> >>],
      [title |-> <<"f", "o">>, text |-> <<"x">>, author |-> <<"b", "o">>,
       tags |-> {<<"f", "o">>, <<"F", "O">>},
       comments |-> << <<<<"b", "o">>, <<"f", "o">>>>,
                       <<<<"b", "o">>, <<"f", "o">>>> >>],
      [title |-> <<"t">>, text |-> <<"x">>, author |-> <<"u">>,
       tags |-> {}, comments |-> <<>>]>>

SearchTagIds == (<<"F", "O">> :> 1) @@ (<<"f", "o", "o">> :> 2) @@ (<<"f", "o">> :> 3)

SearchTexts == {<<>>, <<"F", "o">>}

SearchAuthors == {<<>>, <<"B", "o">>}

SearchInputs ==
    [text : SearchTexts, author : SearchAuthors,
     in_title : BOOLEAN, in_text : BOOLEAN, in_tags : BOOLEAN,
     in_comment_text : BOOLEAN, article_author : BOOLEAN,
     comment_author : BOOLEAN]

\* a store holding some articles of the pool, their tags and their comments
InitSearch ==
    \E pks \in SUBSET (1..Len(SearchPool)) :
        /\ Cardinality(pks) <= MaxSearchArticles
        /\ articles = [pk \in pks |->
              [title |-> SearchPool[pk].title, text |-> SearchPool[pk].text,
               author |-> SearchPool[pk].author]]
        /\ tagTable = {[id |-> SearchTagIds[n], name |-> n] :
                          n \in UNION {SearchPool[pk].tags : pk \in pks}}
        /\ article_tags = {<<pk, SearchTagIds[n]>> :
                              pk \in pks, n \in DOMAIN SearchTagIds}
                          \cap {x \in (pks \X {1, 2, 3}) :
                                  \E n \in SearchPool[x[1]].tags :
                                      SearchTagIds[n] = x[2]}
        /\ comments = UNION {
              {[id |-> 10 * pk + i, article |-> pk,
                author |-> SearchPool[pk].comments[i][1],
                text |-> SearchPool[pk].comments[i][2]] :
                   i \in DOMAIN SearchPool[pk].comments} : pk \in pks}
        /\ requests = IdleRequests
        /\ paginator = NoPaginator
        /\ response = NoResponse

NextSearch == \E data \in SearchInputs : SearchPost(data)

SpecSearch == InitSearch /\ [][NextSearch]_vars

\* C1: clean succeeds iff a search field is filled in and every filled-in
\* field has a scope selected; it then returns the cleaned values unchanged
C1_CleanSucceedsIff ==
    response.op = "search" =>
        LET d == response.data
        IN  /\ response.valid <=>
                  /\ d.text # <<>> \/ d.author # <<>>
                  /\ d.text = <<>> \/ d.in_title \/ d.in_text \/ d.in_tags
                        \/ d.in_comment_text
                  /\ d.author = <<>> \/ d.article_author \/ d.comment_author
            /\ ~response.valid => response.code # ""
            /\ response.valid => response.cleaned = d

\* a search with both fields filled in and scoped passed validation
C1_Witness ==
    /\ response.op = "search" /\ response.valid
    /\ response.data.text # <<>> /\ response.data.author # <<>>
    /\ ~response.data.in_title /\ response.data.comment_author

\* C10: a failing input yields one error code, the first failing rule's, in
\* the order text scope, author scope, both empty
C10_FirstFailingRule ==
    response.op = "search" =>
        LET d == response.data
            noTextScope == d.text # <<>> /\ ~d.in_title /\ ~d.in_text
                              /\ ~d.in_tags /\ ~d.in_comment_text
            noAuthorScope == d.author # <<>> /\ ~d.article_author
                                /\ ~d.comment_author
        IN  /\ noTextScope => response.code = "text_search_criteria_empty"
            /\ response.code = "text_search_criteria_empty" => noTextScope
            /\ response.code = "author_search_criteria_empty"
                  <=> (noAuthorScope /\ ~noTextScope)
            /\ response.code = "author_text_search_criteria_empty"
                  <=> (d.text = <<>> /\ d.author = <<>>)
            /\ ~response.valid =>
                  response.code \in {"text_search_criteria_empty",
                                     "author_search_criteria_empty",
                                     "author_text_search_criteria_empty"}

\* both scope rules fail and only the text-scope error is reported
C10_Witness ==
    /\ response.op = "search"
    /\ response.data.text # <<>> /\ response.data.author # <<>>
    /\ ~response.data.article_author /\ ~response.data.comment_author
    /\ response.code = "text_search_criteria_empty"

\* the clauses of the search predicates, said directly
TitleHas(a, d) == d.in_title /\ IContains(articles[a].title, d.text)

BodyHas(a, d) == d.in_text /\ IContains(articles[a].text, d.text)

TagIs(a, d) == d.in_tags /\ \E t \in TagsOf(a) : IExact(t.name, d.text)

AuthorIs(a, d) == d.article_author /\ IExact(articles[a].author, d.author)

CommentHas(c, d) == d.in_comment_text /\ IContains(c.text, d.text)

CommentBy(c, d) == d.comment_author /\ IExact(c.author, d.author)

\* the predicate as claimed: the comment of TextPred and the comment of
\* AuthorPred are quantified independently
ClaimedMatch(a, d) ==
    /\ d.text = <<>> \/ TitleHas(a, d) \/ BodyHas(a, d) \/ TagIs(a, d)
          \/ \E c \in CommentsOf(a) : CommentHas(c, d)
    /\ d.author = <<>> \/ AuthorIs(a, d)
          \/ \E c \in CommentsOf(a) : CommentBy(c, d)

\* the predicate of the one filter() call: both comment clauses read the
\* same comment
JoinedMatch(a, d) ==
    LET textElse == d.text = <<>> \/ TitleHas(a, d) \/ BodyHas(a, d) \/ TagIs(a, d)
        authorElse == d.author = <<>> \/ AuthorIs(a, d)
    IN  \/ textElse /\ authorElse
        \/ \E c \in CommentsOf(a) :
              /\ textElse \/ (d.text # <<>> /\ CommentHas(c, d))
              /\ authorElse \/ (d.author # <<>> /\ CommentBy(c, d))

\* C2 as claimed: the result holds, once each, exactly the articles of the
\* predicate with independently quantified comments
C2_ResultIsClaimedSet ==
    (response.op = "search" /\ response.valid) =>
        \A a \in DOMAIN articles :
            response.articles[a] = IF ClaimedMatch(a, response.data) THEN 1 ELSE 0

\* C2 amended: the result holds, once each, exactly the articles for which
\* the predicate holds with one comment serving both comment clauses
C2_ResultIsJoinedSet ==
    (response.op = "search" /\ response.valid) =>
        \A a \in DOMAIN articles :
            response.articles[a] = IF JoinedMatch(a, response.data) THEN 1 ELSE 0

\* a search by text in comments and by comment author that returns one
\* article and leaves out an article whose two comments match one clause each
C2_Witness ==
    /\ response.op = "search" /\ response.valid
    /\ response.data.in_comment_text /\ response.data.comment_author
    /\ response.data.text # <<>> /\ response.data.author # <<>>
    /\ \E a, b \in DOMAIN articles :
          /\ response.articles[a] = 1
          /\ response.articles[b] = 0 /\ ClaimedMatch(b, response.data)

(***************************************************************************)
(* Pagination: the article list (ListView.paginate_queryset) and the       *)
(* comments of an article (ArticleView.paginate_comments_to_context)       *)
(***************************************************************************)

\* Paginator(comments, 3, 0)
CommentsPaginateBy == 3

CommentsPaginateOrphans == 0

MaxItems == 8

MaxPerPage == 5

MaxOrphans == 1

\* the object list: item i is the i-th of the ordered result
Items(count) == [i \in 1..count |-> i]

\* Paginator.validate_number: EmptyPage below 1 and above num_pages
ValidPage(pg, number) ==
    number >= 1 /\ number <= NumPages(pg.count, pg.per_page, pg.orphans)

\* ListView.paginate_queryset: an invalid page is answered 404
ListPage(number) ==
    /\ response' =
          IF ValidPage(paginator, number)
          THEN [op |-> "page", number |-> number, status |-> "ok",
                object_list |-> PageObjects(Items(paginator.count),
                                    paginator.per_page, paginator.orphans, number)]
          ELSE [op |-> "page", number |-> number, status |-> "not_found",
                object_list |-> <<>>]
    /\ UNCHANGED <<store, requests, paginator>>

\* Paginator.get_page: an empty page is answered with the last page
GetPage(number) ==
    LET n == IF ValidPage(paginator, number) THEN number
             ELSE NumPages(paginator.count, paginator.per_page, paginator.orphans)
    IN  /\ response' =
              [op |-> "page", number |-> n, status |-> "ok",
               object_list |-> PageObjects(Items(paginator.count),
                                   paginator.per_page, paginator.orphans, n)]
        /\ UNCHANGED <<store, requests, paginator>>

\* a paginator over a result of any size the bounds allow
InitPage ==
    /\ articles = <<>>
    /\ tagTable = {}
    /\ article_tags = {}
    /\ comments = {}
    /\ requests = IdleRequests
    /\ paginator \in [count : 0..MaxItems, per_page : 1..MaxPerPage,
                      orphans : 0..MaxOrphans]
    /\ response = NoResponse

NextPage ==
    \/ \E number \in 0..(MaxItems + 1) : ListPage(number)
    \/ \E number \in 0..(MaxItems + 1) : GetPage(number)

SpecPage == InitPage /\ [][NextPage]_vars

\* C8: the pages are ceil(max(1, n - o) / p) many, every page but the last
\* holds p items, the last holds the rest, and page k starts where page k - 1
\* ended; the article list pages by 5 with 1 orphan, the comments by 3 with 0
C8_PagesPartition ==
    (response.op = "page" /\ response.status = "ok" /\ paginator.count >= 1) =>
        LET n == paginator.count
            p == paginator.per_page
            o == paginator.orphans
            k == response.number
            hits == IF n - o >= 1 THEN n - o ELSE 1
            pages == CHOOSE m \in 1..n : m * p >= hits /\ (m - 1) * p < hits
        IN  /\ k \in 1..pages
            /\ k < pages => response.object_list = [i \in 1..p |-> (k - 1) * p + i]
            /\ k = pages => response.object_list
                               = [i \in 1..(n - (k - 1) * p) |-> (k - 1) * p + i]
            /\ (n = 6 /\ p = IndexPaginateBy /\ o = IndexPaginateOrphans)
                  => Len(response.object_list) = 6
            /\ (n = 4 /\ p = CommentsPaginateBy /\ o = CommentsPaginateOrphans)
                  => Len(response.object_list) = IF k = 1 THEN 3 ELSE 1

\* seven articles: the second page of the list holds two
C8_Witness ==
    /\ response.op = "page" /\ response.status = "ok"
    /\ paginator = [count |-> 7, per_page |-> IndexPaginateBy,
                    orphans |-> IndexPaginateOrphans]
    /\ response.number = 2
    /\ response.object_list = <<6, 7>>

====
